---- MODULE Spec2Model ----
(***************************************************************************)
(* The segmented time editor of react-widgets (TimeInput.js): the          *)
(* value-parts codec, the segment validator, the edit session kept by      *)
(* useTimePartState, and the handlers that turn key strokes into           *)
(* onChange calls.                                                         *)
(*                                                                         *)
(* JavaScript values are modelled as follows.                              *)
(*   - null / undefined is the empty sequence, a present value x is <<x>>. *)
(*   - a string is a sequence of one-character strings; String(n) and      *)
(*     unary plus are computed digit by digit.                             *)
(*   - a Date is a record of its local calendar fields plus ref, the       *)
(*     identity of the object (state.value !== value compares objects).    *)
(*     Days are numbered; time zones and daylight saving are left out.     *)
(***************************************************************************)
EXTENDS Integers, Sequences, FiniteSets, TLC

VARIABLES
    count,   \* the module-level `let count = 0` of useTimePartState
    eds,     \* the mounted editors: id -> props, hook state and focus
    last,    \* what the last handler did: its input, its calls, its effects
    steps,   \* number of events handled so far
    calc     \* a bench that applies the pure functions to drawn inputs

vars == <<count, eds, last, steps, calc>>

(***************************************************************************)
(* Bounds of the model.                                                    *)
(***************************************************************************)
\* events per behaviour of Spec
MaxSteps == 2
\* how far from each end of a field's range the sampled timestamps reach
SampleWidth == 1
\* mismatching renders a behaviour of SpecSync may count past the threshold
MaxOverrun == 2

(***************************************************************************)
(* JavaScript values.                                                      *)
(***************************************************************************)
null == <<>>

Some(x) == <<x>>

\* x == null
isNull(x) == x = <<>>

\* the value of a present optional
the(x) == x[1]

Digits == <<"0", "1", "2", "3", "4", "5", "6", "7", "8", "9">>

isDigit(c) == c \in {"0", "1", "2", "3", "4", "5", "6", "7", "8", "9"}

digitValue(c) ==
    CASE c = "0" -> 0 [] c = "1" -> 1 [] c = "2" -> 2 [] c = "3" -> 3
      [] c = "4" -> 4 [] c = "5" -> 5 [] c = "6" -> 6 [] c = "7" -> 7
      [] c = "8" -> 8 [] c = "9" -> 9

isDigits(s) == \A k \in 1..Len(s) : isDigit(s[k])

RECURSIVE natString(_)
natString(n) ==
    IF n < 10 THEN <<Digits[n + 1]>>
    ELSE natString(n \div 10) \o <<Digits[(n % 10) + 1]>>

\* String(n) for an integer n
String(n) == IF n < 0 THEN <<"-">> \o natString(0 - n) ELSE natString(n)

RECURSIVE digitsValue(_)
digitsValue(s) ==
    IF s = <<>> THEN 0
    ELSE 10 * digitsValue(SubSeq(s, 1, Len(s) - 1)) + digitValue(s[Len(s)])

\* +s over the characters the model types: '' is 0, decimal digits with an
\* optional sign are their value, anything else is NaN (null here)
Number(s) ==
    IF s = <<>> THEN Some(0)
    ELSE IF isDigits(s) THEN Some(digitsValue(s))
    ELSE IF s[1] = "-" /\ Len(s) > 1 /\ isDigits(Tail(s))
         THEN Some(0 - digitsValue(Tail(s)))
    ELSE null

isNaN(x) == x = null

\* `${currentValue || ''}`: 0 and null are falsy
textOf(currentValue) ==
    IF isNull(currentValue) \/ the(currentValue) = 0 THEN <<>>
    ELSE String(the(currentValue))

(***************************************************************************)
(* Dates.                                                                  *)
(***************************************************************************)
\* milliseconds in one unit of each field
unit == [milliseconds |-> 1, seconds |-> 1000, minutes |-> 60 * 1000,
         hours |-> 60 * 60 * 1000, day |-> 24 * 60 * 60 * 1000]

dateTime(d) ==
    d.day * unit.day + d.hours * unit.hours + d.minutes * unit.minutes
        + d.seconds * unit.seconds + d.milliseconds

floorDiv(a, b) == IF a >= 0 THEN a \div b ELSE 0 - ((b - 1 - a) \div b)

\* the Date object ref whose time value is t
dateOf(ref, t) ==
    LET day == floorDiv(t, unit.day)
        r == t - day * unit.day
    IN  [ref |-> ref, day |-> day,
         hours |-> r \div unit.hours,
         minutes |-> (r % unit.hours) \div unit.minutes,
         seconds |-> (r % unit.minutes) \div unit.seconds,
         milliseconds |-> r % unit.seconds]

\* Date.prototype.setHours and its siblings: a field out of its range
\* carries into the fields above it
setHours(d, h) == dateOf(d.ref, dateTime(d) + (h - d.hours) * unit.hours)

setMinutes(d, m) == dateOf(d.ref, dateTime(d) + (m - d.minutes) * unit.minutes)

setSeconds(d, s) == dateOf(d.ref, dateTime(d) + (s - d.seconds) * unit.seconds)

setMilliseconds(d, ms) == dateOf(d.ref, dateTime(d) + (ms - d.milliseconds))

\* two optional dates denote the same instant (or are both absent)
sameTime(a, b) ==
    IF isNull(a) \/ isNull(b) THEN isNull(a) /\ isNull(b)
    ELSE dateTime(the(a)) = dateTime(the(b))

\* dates.today(): the current day, numbered 0 here
today == [ref |-> 0, day |-> 0, hours |-> 0, minutes |-> 0, seconds |-> 0,
          milliseconds |-> 0]

\* dates.startOf(d, 'day')
startOf(d) == [d EXCEPT !.hours = 0, !.minutes = 0, !.seconds = 0,
                        !.milliseconds = 0]

(***************************************************************************)
(* The value-parts codec and the segment validator.                        *)
(***************************************************************************)
Precisions == {"minutes", "seconds", "milliseconds"}

NumericParts == {"hours", "minutes", "seconds", "milliseconds"}

isEmptyValue(p, precision) ==
    /\ isNull(p.hours)
    /\ isNull(p.minutes)
    /\ ((precision # "seconds" /\ precision # "milliseconds") \/ isNull(p.seconds))
    /\ (precision # "milliseconds" \/ isNull(p.milliseconds))

\* isPartialValue without its last line: the milliseconds are never asked for
isPartialValueNoMs(p, precision) ==
    \/ isNull(p.hours)
    \/ isNull(p.minutes)
    \/ ((precision = "seconds" \/ precision = "milliseconds") /\ isNull(p.seconds))

isPartialValue(p, precision) ==
    \/ isNull(p.hours)
    \/ isNull(p.minutes)
    \/ ((precision = "seconds" \/ precision = "milliseconds") /\ isNull(p.seconds))
    \/ (precision = "milliseconds" /\ isNull(p.milliseconds))

\* getValueParts with the test of use12HourClock lost: always 12-hour
getValuePartsAlways12(value, use12HourClock) ==
    IF isNull(value)
    THEN [hours |-> null, minutes |-> null, seconds |-> null,
          milliseconds |-> null, meridiem |-> "AM"]
    ELSE LET v == the(value)
             h == v.hours
         IN  [hours |-> Some(IF h % 12 = 0 THEN 12 ELSE h % 12),
              minutes |-> Some(v.minutes),
              seconds |-> Some(v.seconds),
              milliseconds |-> Some(v.milliseconds),
              meridiem |-> IF h < 12 THEN "AM" ELSE "PM"]

getValueParts(value, use12HourClock) ==
    IF isNull(value)
    THEN [hours |-> null, minutes |-> null, seconds |-> null,
          milliseconds |-> null, meridiem |-> "AM"]
    ELSE LET v == the(value)
             h == v.hours
         IN  [hours |-> Some(IF use12HourClock
                             THEN (IF h % 12 = 0 THEN 12 ELSE h % 12)
                             ELSE h),
              minutes |-> Some(v.minutes),
              seconds |-> Some(v.seconds),
              milliseconds |-> Some(v.milliseconds),
              meridiem |-> IF use12HourClock
                           THEN (IF h < 12 THEN "AM" ELSE "PM")
                           ELSE "AM"]

charIn(c, lo, hi) == isDigit(c) /\ digitValue(c) >= lo /\ digitValue(c) <= hi

\* TESTS with 2[0-4] for 2[0-3] in the hours of the 24-hour clock
TESTSHoursTo24(name, s) ==
    CASE name = "hours" ->
            \/ Len(s) = 1 /\ isDigit(s[1])
            \/ Len(s) = 2 /\ s[1] = "1" /\ isDigit(s[2])
            \/ Len(s) = 2 /\ s[1] = "2" /\ charIn(s[2], 0, 4)
      [] name = "hours12" ->
            \/ Len(s) = 2 /\ s[1] = "1" /\ charIn(s[2], 0, 2)
            \/ Len(s) = 1 /\ charIn(s[1], 1, 9)
            \/ Len(s) = 2 /\ s[1] = "0" /\ charIn(s[2], 1, 9)
      [] name \in {"minutes", "seconds"} ->
            \/ Len(s) = 1 /\ isDigit(s[1])
            \/ Len(s) = 2 /\ charIn(s[1], 0, 5) /\ isDigit(s[2])
      [] name = "milliseconds" ->
            Len(s) \in 1..3 /\ isDigits(s)

\* TESTS[name].test(s), one regular expression per case
TESTS(name, s) ==
    CASE name = "hours" ->
            \* /^([1]?[0-9]|2[0-3])$/
            \/ Len(s) = 1 /\ isDigit(s[1])
            \/ Len(s) = 2 /\ s[1] = "1" /\ isDigit(s[2])
            \/ Len(s) = 2 /\ s[1] = "2" /\ charIn(s[2], 0, 3)
      [] name = "hours12" ->
            \* /^^(1[0-2]|0?[1-9])$$/
            \/ Len(s) = 2 /\ s[1] = "1" /\ charIn(s[2], 0, 2)
            \/ Len(s) = 1 /\ charIn(s[1], 1, 9)
            \/ Len(s) = 2 /\ s[1] = "0" /\ charIn(s[2], 1, 9)
      [] name \in {"minutes", "seconds"} ->
            \* /^([0-5]?\d)$/
            \/ Len(s) = 1 /\ isDigit(s[1])
            \/ Len(s) = 2 /\ charIn(s[1], 0, 5) /\ isDigit(s[2])
      [] name = "milliseconds" ->
            \* /^(\d{1,3})$/
            Len(s) \in 1..3 /\ isDigits(s)

isValid(value, part, use12HourClock) ==
    TESTS(IF part = "hours" THEN (IF ~use12HourClock THEN "hours" ELSE "hours12")
          ELSE part, value)

(***************************************************************************)
(* The editor: its props, the state of useTimePartState, and focus.        *)
(***************************************************************************)
AllParts == NumericParts \cup {"meridiem"}

\* the segments TimeInput renders for the props of editor e
renderedParts(e) ==
    {"hours", "minutes"}
        \cup (IF e.precision \in {"seconds", "milliseconds"} THEN {"seconds"} ELSE {})
        \cup (IF e.precision = "milliseconds" THEN {"milliseconds"} ELSE {})
        \cup (IF e.use12HourClock THEN {"meridiem"} ELSE {})

\* useState(() => ({value, use12HourClock, timeParts})) on the first render
mount(value, use12HourClock, precision, disabled, readOnly, datePart) ==
    [value |-> value, use12HourClock |-> use12HourClock,
     precision |-> precision, disabled |-> disabled, readOnly |-> readOnly,
     datePart |-> datePart,
     state |-> [value |-> value, use12HourClock |-> use12HourClock,
                timeParts |-> getValueParts(value, use12HourClock)],
     focus |-> "none"]

\* the threshold of `if (count < 100)`
RetryLimit == 100

\* one render of useTimePartState for editor e with the counter at c: a
\* mismatch counts, and below the threshold sets the state anew, which
\* renders once more with the state in step
useTimePartState(e, c) ==
    IF e.state.value # e.value \/ e.state.use12HourClock # e.use12HourClock
    THEN [count |-> c + 1,
          ed |-> IF c + 1 < RetryLimit
                 THEN [e EXCEPT !.state =
                          [value |-> e.value,
                           use12HourClock |-> e.use12HourClock,
                           timeParts |-> getValueParts(e.value, e.use12HourClock)]]
                 ELSE e]
    ELSE [count |-> c, ed |-> e]

\* the body of useTimePartState without `if (count < 100)`: every mismatch
\* sets the state and renders again
renderOnceUnguarded(e, c) ==
    IF e.state.value # e.value \/ e.state.use12HourClock # e.use12HourClock
    THEN [count |-> c + 1,
          ed |-> [e EXCEPT !.state =
                     [value |-> e.value,
                      use12HourClock |-> e.use12HourClock,
                      timeParts |-> getValueParts(e.value, e.use12HourClock)]],
          again |-> TRUE]
    ELSE [count |-> c, ed |-> e, again |-> FALSE]

\* the body of useTimePartState run once, for editor e with the counter at
\* c: a mismatch counts, and below the threshold calls setState, which makes
\* React render the editor again
renderOnce(e, c) ==
    IF e.state.value # e.value \/ e.state.use12HourClock # e.use12HourClock
    THEN [count |-> c + 1,
          ed |-> IF c + 1 < RetryLimit
                 THEN [e EXCEPT !.state =
                          [value |-> e.value,
                           use12HourClock |-> e.use12HourClock,
                           timeParts |-> getValueParts(e.value, e.use12HourClock)]]
                 ELSE e,
          again |-> c + 1 < RetryLimit]
    ELSE [count |-> c, ed |-> e, again |-> FALSE]

\* the range advertised for a segment (aria-valuemin, aria-valuemax)
getMin(part) == IF part = "hours" THEN 1 ELSE 0

getMax(e, part) ==
    IF part = "hours" THEN (IF e.use12HourClock THEN 12 ELSE 23)
    ELSE IF part = "milliseconds" THEN 999
    ELSE 59

\* an object identity held neither by the value prop nor by state.value
freshRef(e) ==
    LET held == {the(d).ref : d \in {x \in {e.value, e.state.value} : ~isNull(x)}}
    IN  IF 0 \notin held THEN 0 ELSE IF 1 \notin held THEN 1 ELSE 2

getDatePart(e) ==
    startOf(IF isNull(e.datePart) THEN today ELSE the(e.datePart))

\* { ...timeParts, ...updates }: updates is a function on some of the parts
mergeParts(timeParts, updates) ==
    LET pick(p) == IF p \in DOMAIN updates THEN updates[p] ELSE timeParts[p]
    IN  [hours |-> pick("hours"), minutes |-> pick("minutes"),
         seconds |-> pick("seconds"), milliseconds |-> pick("milliseconds"),
         meridiem |-> pick("meridiem")]

\* composeDate without `if (hours === 12) hours = 0`
composeDateKeeps12(e, nextTimeParts) ==
    LET base == IF isNull(e.value) THEN getDatePart(e) ELSE the(e.value)
        nextDate == [base EXCEPT !.ref = freshRef(e)]
        h0 == the(nextTimeParts.hours)
        hours == IF e.use12HourClock
                 THEN h0 + (IF nextTimeParts.meridiem = "PM" THEN 12 ELSE 0)
                 ELSE h0
        d1 == setHours(nextDate, hours)
        d2 == setMinutes(d1, the(nextTimeParts.minutes))
        d3 == IF ~isNull(nextTimeParts.seconds)
              THEN setSeconds(d2, the(nextTimeParts.seconds)) ELSE d2
    IN  IF ~isNull(nextTimeParts.milliseconds)
        THEN setMilliseconds(d3, the(nextTimeParts.milliseconds)) ELSE d3

\* the Date notifyChange builds from a complete segment record
composeDate(e, nextTimeParts) ==
    LET base == IF isNull(e.value) THEN getDatePart(e) ELSE the(e.value)
        nextDate == [base EXCEPT !.ref = freshRef(e)]
        h0 == the(nextTimeParts.hours)
        hours == IF e.use12HourClock
                 THEN (IF h0 = 12 THEN 0 ELSE h0)
                          + (IF nextTimeParts.meridiem = "PM" THEN 12 ELSE 0)
                 ELSE h0
        d1 == setHours(nextDate, hours)
        d2 == setMinutes(d1, the(nextTimeParts.minutes))
        d3 == IF ~isNull(nextTimeParts.seconds)
              THEN setSeconds(d2, the(nextTimeParts.seconds)) ELSE d2
    IN  IF ~isNull(nextTimeParts.milliseconds)
        THEN setMilliseconds(d3, the(nextTimeParts.milliseconds)) ELSE d3

\* what a handler did: the merged record (when notifyChange ran), the calls
\* of onChange, the argument of setTimeParts, preventDefault, focus()
noEffect ==
    [merged |-> null, calls |-> <<>>, stored |-> null, prevented |-> FALSE,
     focused |-> "none"]

\* notifyChange with `value &&` lost from its first test: an empty merged
\* record reports "cleared" even when there is no value
notifyChangeUnguarded(e, updates) ==
    LET timeParts == e.state.timeParts
        nextTimeParts == mergeParts(timeParts, updates)
        out == [noEffect EXCEPT !.merged = Some(nextTimeParts)]
    IN  IF isEmptyValue(nextTimeParts, e.precision)
        THEN [out EXCEPT !.calls = <<[value |-> null, meta |-> null]>>]
        ELSE IF isPartialValue(nextTimeParts, e.precision)
        THEN [out EXCEPT !.stored = Some(nextTimeParts)]
        ELSE [out EXCEPT !.calls =
                 <<[value |-> Some(composeDate(e, nextTimeParts)),
                    meta |-> Some([lastValue |-> e.value,
                                   timeParts |-> timeParts])]>>]

notifyChange(e, updates) ==
    LET timeParts == e.state.timeParts
        nextTimeParts == mergeParts(timeParts, updates)
        out == [noEffect EXCEPT !.merged = Some(nextTimeParts)]
    IN  IF ~isNull(e.value) /\ isEmptyValue(nextTimeParts, e.precision)
        THEN [out EXCEPT !.calls = <<[value |-> null, meta |-> null]>>]
        ELSE IF isPartialValue(nextTimeParts, e.precision)
        THEN [out EXCEPT !.stored = Some(nextTimeParts)]
        ELSE [out EXCEPT !.calls =
                 <<[value |-> Some(composeDate(e, nextTimeParts)),
                    meta |-> Some([lastValue |-> e.value,
                                   timeParts |-> timeParts])]>>]

\* createEditableCallback(disabled || readOnly, ref): the handler runs only
\* on an enabled, editable control
editable(e) == ~(e.disabled \/ e.readOnly)

\* increment without the isValid test: the step is never dropped
incrementUnchecked(e, part, inc) ==
    IF ~editable(e) THEN noEffect
    ELSE IF part = "meridiem"
    THEN notifyChange(e, "meridiem" :>
             (IF e.state.timeParts.meridiem = "AM" THEN "PM" ELSE "AM"))
    ELSE LET cur == e.state.timeParts[part]
             nextPart == (IF isNull(cur) THEN 0 ELSE the(cur)) + inc
         IN  notifyChange(e, part :> Some(nextPart))

increment(e, part, inc) ==
    IF ~editable(e) THEN noEffect
    ELSE IF part = "meridiem"
    THEN notifyChange(e, "meridiem" :>
             (IF e.state.timeParts.meridiem = "AM" THEN "PM" ELSE "AM"))
    ELSE LET cur == e.state.timeParts[part]
             nextPart == (IF isNull(cur) THEN 0 ELSE the(cur)) + inc
         IN  IF ~isValid(String(nextPart), part, e.use12HourClock) THEN noEffect
             ELSE notifyChange(e, part :> Some(nextPart))

(***************************************************************************)
(* Handlers.  Each is the whole handler: its calls of setTimeParts and     *)
(* onChange, the owner's answer to onChange (useUncontrollable stores the  *)
(* new value, a controlling owner may keep the old one), and the render    *)
(* that follows.                                                           *)
(***************************************************************************)
\* the owner's possible answers to the calls of a handler
answers(eff) == IF eff.calls = <<>> THEN {FALSE} ELSE BOOLEAN

\* editor e after the handler's effect eff, the owner accepting or not
applied(e, eff, accept) ==
    LET e1 == IF isNull(eff.stored) THEN e
              ELSE [e EXCEPT !.state.timeParts = the(eff.stored)]
        e2 == IF eff.calls # <<>> /\ accept
              THEN [e1 EXCEPT !.value = eff.calls[1].value] ELSE e1
    IN  IF eff.focused = "none" THEN e2 ELSE [e2 EXCEPT !.focus = eff.focused]

settle(i, op, part, rawValue, key, eff, accept) ==
    LET e == eds[i]
        next == applied(e, eff, accept)
        r == IF next # e THEN useTimePartState(next, count)
             ELSE [count |-> count, ed |-> e]
    IN  /\ eds' = [eds EXCEPT ![i] = r.ed]
        /\ count' = r.count
        /\ last' = [op |-> op, ed |-> i, part |-> part, rawValue |-> rawValue,
                    key |-> key, before |-> Some(e), effect |-> eff,
                    accepted |-> accept]

\* handleChange without the "start over" branch: a combination that is not
\* valid is refused
changeEffectNoRestart(e, part, rawValue) ==
    LET currentValue == e.state.timeParts[part]
        strValue == textOf(currentValue) \o rawValue
        numValue == Number(strValue)
        update(n) == part :> (IF rawValue # <<>> THEN n ELSE null)
    IN  IF isNaN(numValue)
           \/ (strValue # <<>> /\ ~isValid(strValue, part, e.use12HourClock))
        THEN [noEffect EXCEPT !.prevented = TRUE]
        ELSE notifyChange(e, update(numValue))

\* handleChange without the early return: a key stroke that is not valid
\* empties the segment
changeEffectNoReturn(e, part, rawValue) ==
    LET currentValue == e.state.timeParts[part]
        strValue == textOf(currentValue) \o rawValue
        numValue == Number(strValue)
        update(n) == part :> (IF rawValue # <<>> THEN n ELSE null)
    IN  IF isNaN(numValue)
           \/ (strValue # <<>> /\ ~isValid(strValue, part, e.use12HourClock))
        THEN IF isValid(rawValue, part, e.use12HourClock) /\ ~isNaN(Number(rawValue))
             THEN notifyChange(e, update(Number(rawValue)))
             ELSE notifyChange(e, part :> null)
        ELSE notifyChange(e, update(numValue))

\* the effect of handleChange(part, event) with event.target.value = rawValue
changeEffect(e, part, rawValue) ==
    LET currentValue == e.state.timeParts[part]
        strValue == textOf(currentValue) \o rawValue
        numValue == Number(strValue)
        update(n) == part :> (IF rawValue # <<>> THEN n ELSE null)
    IN  IF isNaN(numValue)
           \/ (strValue # <<>> /\ ~isValid(strValue, part, e.use12HourClock))
        THEN IF isValid(rawValue, part, e.use12HourClock) /\ ~isNaN(Number(rawValue))
             THEN notifyChange(e, update(Number(rawValue)))
             ELSE [noEffect EXCEPT !.prevented = TRUE]
        ELSE notifyChange(e, update(numValue))

handleChange(i, part, rawValue) ==
    /\ part \in renderedParts(eds[i]) \cap NumericParts
    /\ LET eff == changeEffect(eds[i], part, rawValue)
       IN  \E accept \in answers(eff) :
               settle(i, "handleChange", part, rawValue, "", eff, accept)

\* the effect of handleKeyDown(part, event) with event.key = key
keyDownEffect(e, part, key) ==
    IF ~editable(e) THEN noEffect
    ELSE LET arrow == IF key = "ArrowUp" THEN increment(e, part, 1)
                      ELSE IF key = "ArrowDown" THEN increment(e, part, 0 - 1)
                      ELSE noEffect
             a1 == [arrow EXCEPT !.prevented =
                       key \in {"ArrowUp", "ArrowDown"}
                           \/ (e.readOnly /\ key # "Tab")]
         IN  IF part = "meridiem" /\ key \in {"a", "A"}
             THEN [notifyChange(e, "meridiem" :> "AM") EXCEPT !.prevented = a1.prevented]
             ELSE IF part = "meridiem" /\ key \in {"p", "P"}
             THEN [notifyChange(e, "meridiem" :> "PM") EXCEPT !.prevented = a1.prevented]
             ELSE a1

\* the elements with data-focusable, in document order
focusables(e) ==
    <<"hours", "minutes">>
        \o (IF e.precision \in {"seconds", "milliseconds"} THEN <<"seconds">> ELSE <<>>)
        \o (IF e.precision = "milliseconds" THEN <<"milliseconds">> ELSE <<>>)
        \o (IF e.use12HourClock THEN <<"meridiem">> ELSE <<>>)

\* nodes.indexOf(input)
indexOf(nodes, input) == CHOOSE k \in 1..Len(nodes) : nodes[k] = input

\* focusNext(input, delta): the segment whose focus() is called, "none"
\* when nodes[...] is undefined
focusNext(e, part, delta) ==
    LET nodes == focusables(e)
        k == indexOf(nodes, part) + delta
    IN  IF k \in 1..Len(nodes) THEN nodes[k] ELSE "none"

\* the effect of handleKeyDown(part, event) with event.key ArrowLeft or
\* ArrowRight, the target holding a text of `length` characters with the
\* selection from start to end
focusKeyEffect(e, part, key, start, end, length) ==
    IF ~editable(e) THEN noEffect
    ELSE LET isMeridiem == part = "meridiem"
         IN  IF key = "ArrowLeft" /\ (isMeridiem \/ start - 1 < 0)
             THEN [noEffect EXCEPT !.prevented = TRUE,
                                   !.focused = focusNext(e, part, 0 - 1)]
             ELSE IF key = "ArrowRight" /\ (isMeridiem \/ length <= end + 1)
             THEN [noEffect EXCEPT !.prevented = TRUE,
                                   !.focused = focusNext(e, part, 1)]
             ELSE [noEffect EXCEPT !.prevented = e.readOnly]

\* handleKeyDown for ArrowLeft and ArrowRight; the selection and the length
\* of the text as the event found them are kept in calc
handleKeyDownFocus(i, part, key, start, end, length) ==
    /\ part \in renderedParts(eds[i])
    /\ key \in {"ArrowLeft", "ArrowRight"}
    /\ settle(i, "handleKeyDown", part, <<>>, key,
              focusKeyEffect(eds[i], part, key, start, end, length), FALSE)
    /\ calc' = [pc |-> "caret", start |-> start, end |-> end, length |-> length]

\* the user puts the focus on a segment (a click, Tab): didHandle leaves it
\* there, the target having data-focusable
focusSegment(i, part) ==
    /\ part \in renderedParts(eds[i])
    /\ eds' = [eds EXCEPT ![i].focus = part]
    /\ last' = [op |-> "focus", ed |-> i, part |-> part, rawValue |-> <<>>,
                key |-> "", before |-> Some(eds[i]), effect |-> noEffect,
                accepted |-> FALSE]
    /\ UNCHANGED count

handleKeyDown(i, part, key) ==
    /\ part \in renderedParts(eds[i])
    /\ LET eff == keyDownEffect(eds[i], part, key)
       IN  \E accept \in answers(eff) :
               settle(i, "handleKeyDown", part, <<>>, key, eff, accept)

\* handleClear that keeps the buffered segments when there is no value
clearEffectKeepsBuffer(e) ==
    IF ~editable(e) THEN noEffect
    ELSE IF ~isNull(e.value)
    THEN [noEffect EXCEPT !.focused = "hours",
                          !.calls = <<[value |-> null, meta |-> null]>>]
    ELSE [noEffect EXCEPT !.focused = "hours",
                          !.stored = Some(e.state.timeParts)]

\* handleClear not wrapped in useEditableCallback
clearEffectUnwrapped(e) ==
    IF ~isNull(e.value)
    THEN [noEffect EXCEPT !.focused = "hours",
                          !.calls = <<[value |-> null, meta |-> null]>>]
    ELSE [noEffect EXCEPT !.focused = "hours",
                          !.stored = Some(getValueParts(null, FALSE))]

\* the effect of handleClear()
clearEffect(e) ==
    IF ~editable(e) THEN noEffect
    ELSE IF ~isNull(e.value)
    THEN [noEffect EXCEPT !.focused = "hours",
                          !.calls = <<[value |-> null, meta |-> null]>>]
    ELSE [noEffect EXCEPT !.focused = "hours",
                          !.stored = Some(getValueParts(null, FALSE))]

handleClear(i) ==
    LET eff == clearEffect(eds[i])
    IN  \E accept \in answers(eff) :
            settle(i, "handleClear", "", <<>>, "", eff, accept)

\* the owner renders the editor with another value (a new Date object, or none)
setValue(i, time) ==
    LET e == eds[i]
        v == IF isNull(time) THEN null ELSE Some(dateOf(freshRef(e), the(time)))
        r == useTimePartState([e EXCEPT !.value = v], count)
    IN  /\ ~(isNull(time) /\ isNull(e.value))
        /\ eds' = [eds EXCEPT ![i] = r.ed]
        /\ count' = r.count
        /\ last' = [op |-> "setValue", ed |-> i, part |-> "", rawValue |-> <<>>,
                    key |-> "", before |-> Some(e), effect |-> noEffect,
                    accepted |-> FALSE]

\* the owner renders the editor with the other clock
setUse12HourClock(i) ==
    LET e == eds[i]
        r == useTimePartState([e EXCEPT !.use12HourClock = ~e.use12HourClock], count)
    IN  /\ eds' = [eds EXCEPT ![i] = r.ed]
        /\ count' = r.count
        /\ last' = [op |-> "setUse12HourClock", ed |-> i, part |-> "",
                    rawValue |-> <<>>, key |-> "", before |-> Some(e),
                    effect |-> noEffect, accepted |-> FALSE]

(***************************************************************************)
(* Spec: one editor, every precision and clock, a few events.              *)
(***************************************************************************)
\* hh:mm:ss.mmm on day d as a time value
timeAt(d, h, m, sec, ms) ==
    d * unit.day + h * unit.hours + m * unit.minutes + sec * unit.seconds + ms

\* the time values owners supply: the first and the last instant of a day
OwnerTimes == {timeAt(1, 0, 0, 0, 0), timeAt(2, 23, 59, 59, 999)}

\* what a key stroke leaves in event.target.value
RawInputs == {<<>>, <<"0">>, <<"1">>, <<"2">>, <<"5">>, <<"9">>, <<"a">>}

Keys == {"ArrowUp", "ArrowDown", "a", "A", "p", "P", "Tab"}

\* the key strokes tried: the arrows on every segment, the meridiem letters
\* on the meridiem, and on the other segments one letter and Tab
KeyEvents ==
    {ev \in AllParts \X Keys :
        \/ ev[2] \in {"ArrowUp", "ArrowDown"}
        \/ ev[1] = "meridiem"
        \/ ev[1] = "hours" /\ ev[2] \in {"p", "Tab"}}

idle == [pc |-> "idle"]

started ==
    [op |-> "init", ed |-> 0, part |-> "", rawValue |-> <<>>, key |-> "",
     before |-> null, effect |-> noEffect, accepted |-> FALSE]

Init ==
    /\ count = 0
    /\ steps = 0
    /\ calc = idle
    /\ last = started
    /\ \E time \in {null} \cup {Some(t) : t \in OwnerTimes},
          use12HourClock \in BOOLEAN, precision \in Precisions :
          eds = 1 :> mount(IF isNull(time) THEN null ELSE Some(dateOf(0, the(time))),
                           use12HourClock, precision, FALSE, FALSE, null)

Tick == steps < MaxSteps /\ steps' = steps + 1 /\ UNCHANGED calc

\* the segment inputs are rendered with disabled={disabled} and
\* readOnly={readOnly}: an input with either attribute takes no typing, so
\* no change event reaches handleChange, which has no test of its own
receivesInput(e, part) ==
    part \in renderedParts(e) \cap NumericParts /\ ~e.disabled /\ ~e.readOnly

Type ==
    \E i \in DOMAIN eds, part \in NumericParts, rawValue \in RawInputs :
        Tick /\ receivesInput(eds[i], part) /\ handleChange(i, part, rawValue)

KeyDown ==
    \E i \in DOMAIN eds, ev \in KeyEvents :
        Tick /\ handleKeyDown(i, ev[1], ev[2])

Clear == \E i \in DOMAIN eds : Tick /\ handleClear(i)

SetValue ==
    \E i \in DOMAIN eds, time \in {null} \cup {Some(t) : t \in OwnerTimes} :
        Tick /\ setValue(i, time)

SetUse12HourClock == \E i \in DOMAIN eds : Tick /\ setUse12HourClock(i)

Next == Type \/ KeyDown \/ Clear \/ SetValue \/ SetUse12HourClock

Spec == Init /\ [][Next]_vars

(***************************************************************************)
(* SpecCodec: the pure functions applied to drawn inputs.  The bench draws *)
(* a timestamp, or a segment record, with a clock and a precision; it      *)
(* decomposes the timestamp with getValueParts, composes the record with   *)
(* notifyChange({}), or classifies it with isEmptyValue / isPartialValue.  *)
(***************************************************************************)
\* the values of a field 0..max within SampleWidth of either end
ends(max) == (0..SampleWidth) \cup ((max - SampleWidth)..max)

SampleTimes ==
    {timeAt(1, h, m, sec, ms) :
        h \in 0..23, m \in ends(59), sec \in ends(59), ms \in ends(999)}

SampleSegments == {null, Some(0), Some(12)}

SampleRecords ==
    [hours : SampleSegments, minutes : SampleSegments, seconds : SampleSegments,
     milliseconds : SampleSegments, meridiem : {"AM", "PM"}]

\* the editor the bench applies notifyChange in: its value prop and its
\* buffered segments are the drawn ones
benchEditor ==
    [mount(calc.value, calc.use12HourClock, calc.precision, FALSE, FALSE, null)
        EXCEPT !.state.timeParts = calc.timeParts]

InitCodec ==
    /\ count = 0
    /\ steps = 0
    /\ eds = <<>>
    /\ last = started
    /\ \E use12HourClock \in BOOLEAN, precision \in Precisions :
          \/ \E t \in SampleTimes :
                calc = [pc |-> "value", from |-> "value",
                        value |-> Some(dateOf(0, t)),
                        use12HourClock |-> use12HourClock,
                        precision |-> precision,
                        timeParts |-> getValueParts(null, FALSE),
                        out |-> noEffect, empty |-> FALSE, partial |-> FALSE]
          \/ \E p \in SampleRecords, v \in {null, Some(dateOf(0, timeAt(1, 9, 30, 15, 500)))} :
                calc = [pc |-> "parts", from |-> "parts", value |-> v,
                        use12HourClock |-> use12HourClock,
                        precision |-> precision, timeParts |-> p,
                        out |-> noEffect, empty |-> FALSE, partial |-> FALSE]

Decompose ==
    /\ calc.pc = "value"
    /\ calc' = [calc EXCEPT !.pc = "parts",
                            !.timeParts = getValueParts(calc.value, calc.use12HourClock)]
    /\ UNCHANGED <<count, eds, last, steps>>

Compose ==
    /\ calc.pc = "parts"
    /\ calc' = [calc EXCEPT !.pc = "composed", !.out = notifyChange(benchEditor, <<>>)]
    /\ UNCHANGED <<count, eds, last, steps>>

Classify ==
    /\ calc.pc = "parts"
    /\ calc' = [calc EXCEPT !.pc = "classified",
                            !.empty = isEmptyValue(calc.timeParts, calc.precision),
                            !.partial = isPartialValue(calc.timeParts, calc.precision)]
    /\ UNCHANGED <<count, eds, last, steps>>

NextCodec == Decompose \/ Compose \/ Classify

SpecCodec == InitCodec /\ [][NextCodec]_vars

(***************************************************************************)
(* SpecSync: two editors on one page through many renders.  The owners     *)
(* supply values and clocks and accept or refuse edits of the meridiem;    *)
(* the behaviour runs until the counter has passed the threshold.          *)
(***************************************************************************)
SyncTimes == {timeAt(1, 23, 59, 0, 0)}

InitSync ==
    /\ count = 0
    /\ steps = 0
    /\ calc = idle
    /\ last = started
    /\ eds = [i \in 1..2 |-> mount(null, FALSE, "minutes", FALSE, FALSE, null)]

Running == count < RetryLimit + MaxOverrun /\ UNCHANGED <<steps, calc>>

SyncSetValue ==
    \E i \in DOMAIN eds, time \in {null} \cup {Some(t) : t \in SyncTimes} :
        Running /\ setValue(i, time)

SyncSetUse12HourClock == \E i \in DOMAIN eds : Running /\ setUse12HourClock(i)

SyncKeyDown ==
    \E i \in DOMAIN eds : Running /\ handleKeyDown(i, "meridiem", "ArrowUp")

NextSync == SyncSetValue \/ SyncSetUse12HourClock \/ SyncKeyDown

SpecSync == InitSync /\ [][NextSync]_vars

(***************************************************************************)
(* SpecFrame: one editor mounted enabled or disabled, editable or          *)
(* read-only, under the user's events only.                                *)
(***************************************************************************)
FrameTimes == {timeAt(1, 9, 30, 15, 500)}

InitFrame ==
    /\ count = 0
    /\ steps = 0
    /\ calc = idle
    /\ last = started
    /\ \E time \in {null} \cup {Some(t) : t \in FrameTimes},
          use12HourClock \in BOOLEAN, precision \in Precisions,
          disabled \in BOOLEAN, readOnly \in BOOLEAN :
          eds = 1 :> mount(IF isNull(time) THEN null ELSE Some(dateOf(0, the(time))),
                           use12HourClock, precision, disabled, readOnly, null)

NextFrame == Type \/ KeyDown \/ Clear

SpecFrame == InitFrame /\ [][NextFrame]_vars

(***************************************************************************)
(* SpecValid: isValid applied to every short string over a few characters, *)
(* for every segment and both clocks.                                      *)
(***************************************************************************)
\* the longest string tried
ValidLen == 4

ValidChars == {"0", "1", "2", "3", "4", "6", "7", "a"}

ValidStrings == UNION {[1..n -> ValidChars] : n \in 0..ValidLen}

InitValid ==
    /\ count = 0
    /\ steps = 0
    /\ eds = <<>>
    /\ last = started
    /\ \E s \in ValidStrings, part \in NumericParts, use12HourClock \in BOOLEAN :
          calc = [pc |-> "string", value |-> s, part |-> part,
                  use12HourClock |-> use12HourClock, valid |-> FALSE]

Validate ==
    /\ calc.pc = "string"
    /\ calc' = [calc EXCEPT !.pc = "validated",
                            !.valid = isValid(calc.value, calc.part,
                                              calc.use12HourClock)]
    /\ UNCHANGED <<count, eds, last, steps>>

NextValid == Validate

SpecValid == InitValid /\ [][NextValid]_vars

(***************************************************************************)
(* SpecRender: the renders of two editors one by one, under an owner that  *)
(* may supply another value or clock on every render, the renders that     *)
(* setState forces included.                                               *)
(***************************************************************************)
\* what the owner of editor i may do to its props on a render: the first
\* editor is given new values and clocks, the second clocks only
RenderChanges(i) == IF i = 1 THEN {"same", "value", "mode"} ELSE {"same", "mode"}

\* editor e given its props again: the same ones, a new Date, or the other
\* clock
withProps(e, change) ==
    CASE change = "same" -> e
      [] change = "value" ->
            [e EXCEPT !.value = Some(dateOf(freshRef(e), timeAt(1, 23, 59, 0, 0)))]
      [] change = "mode" -> [e EXCEPT !.use12HourClock = ~e.use12HourClock]

rendering(i) == [pc |-> "render", ed |-> i]

InitRender ==
    /\ count = 0
    /\ steps = 0
    /\ calc = idle
    /\ last = started
    /\ eds = [i \in 1..2 |-> mount(null, FALSE, "minutes", FALSE, FALSE, null)]

\* the owner renders editor i with other props
OwnerRender ==
    /\ calc = idle
    /\ count < RetryLimit + MaxOverrun
    /\ \E i \in DOMAIN eds : \E change \in RenderChanges(i) \ {"same"} :
          /\ eds' = [eds EXCEPT ![i] = withProps(eds[i], change)]
          /\ calc' = rendering(i)
    /\ UNCHANGED <<count, last, steps>>

\* React runs the body of the editor being rendered; the owner may have
\* changed the props once more
RenderPass ==
    /\ calc.pc = "render"
    /\ count <= RetryLimit + MaxOverrun
    /\ \E change \in RenderChanges(calc.ed) :
          LET r == renderOnce(withProps(eds[calc.ed], change), count)
          IN  /\ eds' = [eds EXCEPT ![calc.ed] = r.ed]
              /\ count' = r.count
              /\ calc' = IF r.again THEN calc ELSE idle
    /\ UNCHANGED <<last, steps>>

NextRender == OwnerRender \/ RenderPass

SpecRender == InitRender /\ [][NextRender]_vars /\ WF_vars(RenderPass)

(***************************************************************************)
(* SpecFocus: one editor; the user focuses a segment and presses Left and  *)
(* Right with the caret and the selection anywhere in the segment's text.  *)
(***************************************************************************)
\* the longest text of a segment tried
MaxText == 2

\* start, end and length of the target: a div (the meridiem) has no
\* selection
Carets(part) ==
    IF part = "meridiem" THEN {<<0, 0, 0>>}
    ELSE {<<start, end, length>> \in (0..MaxText) \X (0..MaxText) \X (0..MaxText) :
             start <= end /\ end <= length}

InitFocus ==
    /\ count = 0
    /\ steps = 0
    /\ calc = idle
    /\ last = started
    /\ \E time \in {null} \cup {Some(t) : t \in FrameTimes},
          use12HourClock \in BOOLEAN, precision \in Precisions :
          eds = 1 :> mount(IF isNull(time) THEN null ELSE Some(dateOf(0, the(time))),
                           use12HourClock, precision, FALSE, FALSE, null)

FocusSegment ==
    \E i \in DOMAIN eds, part \in AllParts :
        /\ steps < MaxSteps
        /\ steps' = steps + 1
        /\ calc' = idle
        /\ focusSegment(i, part)

\* a key goes to the element that has the focus
FocusKey ==
    \E i \in DOMAIN eds, key \in {"ArrowLeft", "ArrowRight"} :
        \E caret \in Carets(eds[i].focus) :
            /\ steps < MaxSteps
            /\ steps' = steps + 1
            /\ handleKeyDownFocus(i, eds[i].focus, key, caret[1], caret[2], caret[3])

NextFocus == FocusSegment \/ FocusKey

SpecFocus == InitFocus /\ [][NextFocus]_vars

(***************************************************************************)
(* SpecSelect: one editor on a page.  calc is the page: the element that   *)
(* has the focus (document.activeElement: a segment of the editor, or      *)
(* "outside"), the `focused` of the editor's current render, the queue of  *)
(* callbacks made by select() and the last selection a callback made.  A   *)
(* handler runs to its end before a queued callback runs, and the queue    *)
(* is empty before the next event is handled.                              *)
(***************************************************************************)
\* document.activeElement when no segment of the editor has the focus
Outside == "outside"

page(active, focused) ==
    [pc |-> "page", active |-> active, focused |-> focused, jobs |-> <<>>,
     ran |-> null]

\* select(target): queues a callback that holds the target and the
\* `focused` of the render that made this select
select(p, target) ==
    [p EXCEPT !.jobs = Append(@, [focused |-> p.focused, target |-> target])]

\* the queued callback: `if (focused) selectTextRange(target)`; ran keeps
\* the element selected and the element that had the focus at that moment
runSelect(p) ==
    LET job == Head(p.jobs)
    IN  [p EXCEPT !.jobs = Tail(@),
                  !.ran = IF job.focused
                          THEN Some([target |-> job.target, active |-> p.active])
                          ELSE null]

\* handleSelect({ target })
handleSelect(p, target) == select(p, target)

\* the owner's onChange may put the focus on another element of the page
\* before it returns
ownerMoves(p, leaves) == IF leaves THEN [p EXCEPT !.active = Outside] ELSE p

\* the owner's possible moves of the focus during the calls of a handler
moves(eff) == IF eff.calls = <<>> THEN {FALSE} ELSE BOOLEAN

\* whether handleKeyDown(part, event) with this key reaches select()
keySelects(e, part, key) ==
    /\ key \in {"ArrowUp", "ArrowDown"}
    /\ editable(e)
    /\ increment(e, part, IF key = "ArrowUp" THEN 1 ELSE 0 - 1) # noEffect

\* what is typed: nothing left in the input, a digit, a letter
SelectInputs == {<<>>, <<"1">>, <<"a">>}

InitSelect ==
    /\ count = 0
    /\ steps = 0
    /\ calc = page(Outside, FALSE)
    /\ last = started
    /\ \E time \in {null} \cup {Some(t) : t \in FrameTimes},
          use12HourClock \in BOOLEAN, precision \in Precisions :
          eds = 1 :> mount(IF isNull(time) THEN null ELSE Some(dateOf(0, the(time))),
                           use12HourClock, precision, FALSE, FALSE, null)

\* the user puts the focus on a segment; the meridiem has
\* onFocus={handleSelect}
FocusIn ==
    \E i \in DOMAIN eds, part \in AllParts :
        /\ calc.jobs = <<>>
        /\ part \in renderedParts(eds[i])
        /\ part # calc.active
        /\ calc' = (IF part = "meridiem"
                    THEN handleSelect([calc EXCEPT !.active = part], part)
                    ELSE [calc EXCEPT !.active = part])
        /\ UNCHANGED <<count, eds, last, steps>>

\* the user puts the focus on another element of the page
Blur ==
    /\ calc.jobs = <<>>
    /\ calc.active # Outside
    /\ calc' = [calc EXCEPT !.active = Outside]
    /\ UNCHANGED <<count, eds, last, steps>>

\* useFocusManager reports that the focus came to the editor or left it:
\* didHandle runs, select(e.target) when the focus came to a segment, and
\* the editor renders with the new `focused`.  The select that didHandle
\* calls is that of the render before the report or of the one after it.
FocusReport ==
    LET focused == calc.active # Outside
    IN  /\ calc.jobs = <<>>
        /\ calc.focused # focused
        /\ \E seen \in BOOLEAN :
              calc' = [(IF focused
                        THEN select([calc EXCEPT !.focused = seen], calc.active)
                        ELSE calc)
                       EXCEPT !.focused = focused]
        /\ UNCHANGED <<count, eds, last, steps>>

\* the user selects text in the segment that has the focus: onSelect
SelectText ==
    /\ calc.jobs = <<>>
    /\ calc.active # Outside
    /\ calc' = handleSelect(calc, calc.active)
    /\ UNCHANGED <<count, eds, last, steps>>

\* the user types in the segment that has the focus: handleChange calls
\* select(target), then onChange or setTimeParts
SelectType ==
    \E i \in DOMAIN eds, rawValue \in SelectInputs :
        LET part == calc.active
        IN  /\ calc.jobs = <<>>
            /\ steps < MaxSteps
            /\ steps' = steps + 1
            /\ receivesInput(eds[i], part)
            /\ handleChange(i, part, rawValue)
            /\ \E leaves \in moves(changeEffect(eds[i], part, rawValue)) :
                  calc' = ownerMoves(select(calc, part), leaves)

\* the user presses Up or Down in the segment that has the focus:
\* increment calls onChange or setTimeParts, then select() with
\* document.activeElement
SelectKeyDown ==
    \E i \in DOMAIN eds, key \in {"ArrowUp", "ArrowDown"} :
        LET part == calc.active
            e == eds[i]
        IN  /\ calc.jobs = <<>>
            /\ steps < MaxSteps
            /\ steps' = steps + 1
            /\ handleKeyDown(i, part, key)
            /\ \E leaves \in moves(keyDownEffect(e, part, key)) :
                  LET p == ownerMoves(calc, leaves)
                  IN  calc' = IF keySelects(e, part, key)
                              THEN select(p, p.active) ELSE p

\* the callback at the head of the queue runs
RunSelect ==
    /\ calc.jobs # <<>>
    /\ calc' = runSelect(calc)
    /\ UNCHANGED <<count, eds, last, steps>>

NextSelect ==
    FocusIn \/ Blur \/ FocusReport \/ SelectText \/ SelectType \/ SelectKeyDown
        \/ RunSelect

SpecSelect == InitSelect /\ [][NextSelect]_vars

(***************************************************************************)
(* Properties.                                                             *)
(***************************************************************************)
\* the segments a precision requires
requiredParts(precision) ==
    {"hours", "minutes"}
        \cup (IF precision \in {"seconds", "milliseconds"} THEN {"seconds"} ELSE {})
        \cup (IF precision = "milliseconds" THEN {"milliseconds"} ELSE {})

\* the required segments of record p that hold a number
populated(p, precision) == {k \in requiredParts(precision) : p[k] # null}

allAbsent ==
    [hours |-> null, minutes |-> null, seconds |-> null, milliseconds |-> null,
     meridiem |-> "AM"]

\* the last event was a handler of the editor
handled == last.op \in {"handleChange", "handleKeyDown", "handleClear"}

\* the editor as the last handler found it
before == the(last.before)

\* C1: onChange is called at most once per user action, and only (1) with
\* an absent value, by the clear control or by an edit whose merged record
\* is empty, while a value exists, or (2) with a timestamp, by an edit whose
\* merged record has every required segment; an edit whose merged record has
\* some but not all required segments calls nothing and only stores the
\* merged record as the buffered segments.
C1_OnChangeOnlyOnClearOrComplete ==
    handled =>
        LET eff == last.effect
            isEdit == last.op \in {"handleChange", "handleKeyDown"}
            filled == populated(the(eff.merged), before.precision)
        IN  /\ Len(eff.calls) <= 1
            /\ \A k \in 1..Len(eff.calls) :
                  IF isNull(eff.calls[k].value)
                  THEN /\ ~isNull(before.value)
                       /\ \/ last.op = "handleClear"
                          \/ isEdit /\ ~isNull(eff.merged) /\ filled = {}
                  ELSE /\ isEdit
                       /\ ~isNull(eff.merged)
                       /\ filled = requiredParts(before.precision)
            /\ (isEdit /\ ~isNull(eff.merged) /\ filled # {}
                  /\ filled # requiredParts(before.precision))
                  => /\ eff.calls = <<>>
                     /\ eff.stored = eff.merged
                     /\ eds[last.ed] =
                           [before EXCEPT !.state.timeParts = the(eff.merged)]

\* an edit emptied the last segment of an editor that has a value, and
\* onChange was called with an absent value
C1_Witness ==
    /\ last.op = "handleChange"
    /\ ~isNull(before.value)
    /\ last.effect.calls = <<[value |-> null, meta |-> null]>>

\* C2: whenever the value or the clock supplied from outside differs from
\* the ones the session saw last, the render resets the session: once it has
\* settled, state.value and state.use12HourClock are the external ones, and
\* after an event that changed either the segments are
\* getValueParts(value, use12HourClock).  After any number of changes and
\* accepted edits, for every editor.
C2_SessionFollowsProps ==
    \A i \in DOMAIN eds :
        /\ eds[i].state.value = eds[i].value
        /\ eds[i].state.use12HourClock = eds[i].use12HourClock
        /\ (last.ed = i /\ ~isNull(last.before)
              /\ (before.value # eds[i].value
                    \/ before.use12HourClock # eds[i].use12HourClock))
              => eds[i].state.timeParts
                    = getValueParts(eds[i].value, eds[i].use12HourClock)

\* C3: in 24-hour mode, for every timestamp v and precision, notifyChange
\* with no update on the segments getValueParts(v) and with value v calls
\* onChange once, with a timestamp of the same instant as v.
C3_RoundTrip24 ==
    (calc.pc = "composed" /\ calc.from = "value" /\ ~calc.use12HourClock)
        => /\ Len(calc.out.calls) = 1
           /\ ~isNull(calc.out.calls[1].value)
           /\ sameTime(calc.out.calls[1].value, calc.value)
           /\ isNull(calc.out.stored)

\* the last instant of the day went through decomposition and composition
C3_Witness ==
    /\ calc.pc = "composed" /\ calc.from = "value" /\ ~calc.use12HourClock
    /\ calc.precision = "minutes"
    /\ the(calc.value).hours = 23 /\ the(calc.value).minutes = 59
    /\ the(calc.value).seconds = 59 /\ the(calc.value).milliseconds = 999
    /\ Len(calc.out.calls) = 1

\* C4: in 12-hour mode, getValueParts gives meridiem AM iff the hour h is
\* below 12 and the displayed hour h mod 12 with 0 shown as 12 (so 1..12);
\* composing displayed hour d in 1..12 with meridiem m gives the hour
\* (d mod 12) + (12 if m is PM); and composing the decomposition of a
\* timestamp gives back its hour and its minutes.
C4_TwelveHourConversion ==
    LET p == calc.timeParts
        d == the(p.hours)
        emitted == the(calc.out.calls[1].value)
    IN  /\ (calc.pc = "parts" /\ calc.from = "value" /\ calc.use12HourClock)
              => LET h == the(calc.value).hours
                 IN  /\ (p.meridiem = "AM") <=> (h < 12)
                     /\ p.meridiem \in {"AM", "PM"}
                     /\ d \in 1..12
                     /\ d = (IF h % 12 = 0 THEN 12 ELSE h % 12)
                     /\ p.minutes = Some(the(calc.value).minutes)
        /\ (calc.pc = "composed" /\ calc.use12HourClock
              /\ populated(p, calc.precision) = requiredParts(calc.precision)
              /\ d \in 1..12)
              => /\ Len(calc.out.calls) = 1
                 /\ ~isNull(calc.out.calls[1].value)
                 /\ emitted.hours = (d % 12) + (IF p.meridiem = "PM" THEN 12 ELSE 0)
                 /\ emitted.minutes = the(p.minutes)
        /\ (calc.pc = "composed" /\ calc.from = "value" /\ calc.use12HourClock)
              => /\ Len(calc.out.calls) = 1
                 /\ emitted.hours = the(calc.value).hours
                 /\ emitted.minutes = the(calc.value).minutes
                 /\ emitted.day = the(calc.value).day

\* noon went through the 12-hour decomposition (12 PM) and back to hour 12
C4_Witness ==
    /\ calc.pc = "composed" /\ calc.from = "value" /\ calc.use12HourClock
    /\ the(calc.value).hours = 12
    /\ calc.timeParts.hours = Some(12) /\ calc.timeParts.meridiem = "PM"
    /\ the(calc.out.calls[1].value).hours = 12

\* C5 as stated: isEmptyValue is true iff every required field is absent,
\* and isPartialValue is true iff some but not all required fields are
\* present.
C5_AsStated ==
    calc.pc = "classified" =>
        LET filled == populated(calc.timeParts, calc.precision)
        IN  /\ calc.empty <=> (filled = {})
            /\ calc.partial <=>
                  (filled # {} /\ filled # requiredParts(calc.precision))

\* C5 amended: isEmptyValue is true iff every required field is absent,
\* and isPartialValue is true iff at least one required field is absent:
\* it is true of the all-absent record too, and is "some but not all
\* present" exactly on the records that are not empty.
C5_EmptyAndIncomplete ==
    calc.pc = "classified" =>
        LET filled == populated(calc.timeParts, calc.precision)
        IN  /\ calc.empty <=> (filled = {})
            /\ calc.partial <=> (filled # requiredParts(calc.precision))
            /\ ~calc.empty =>
                  (calc.partial <=>
                      (filled # {} /\ filled # requiredParts(calc.precision)))

\* the all-absent record was classified: empty, and partial as well
C5_Witness ==
    /\ calc.pc = "classified"
    /\ populated(calc.timeParts, calc.precision) = {}
    /\ calc.empty /\ calc.partial

\* the text a buffered segment contributes to a key stroke, as the claims
\* put it: nothing when the segment is absent, its decimal digits otherwise
bufferText(b) == IF isNull(b) THEN <<>> ELSE String(the(b))

\* s is numeric and passes the validator of the segment
accepts(s, part, use12HourClock) ==
    s # <<>> /\ isDigits(s) /\ isValid(s, part, use12HourClock)

\* the last event typed one character into a segment
typedChar == last.op = "handleChange" /\ Len(last.rawValue) = 1

\* C6: when a character c is typed into a segment whose buffered value is b
\* (absent counts as the empty string): if b.c is numeric and passes the
\* validator, the segment of the merged record is the number b.c; otherwise,
\* if c alone is numeric and valid, the buffer is discarded and the segment
\* is c.  No other segment of the merged record changes, and a partial
\* merged record becomes the buffered segments.  So with hours buffered as 1
\* in 24-hour mode "2" gives 12, and with minutes buffered as 9 "5" gives 5.
C6_KeystrokeAccumulation ==
    typedChar =>
        LET part == last.part
            c == last.rawValue
            old == before.state.timeParts
            bc == bufferText(old[part]) \o c
            eff == last.effect
            merged == the(eff.merged)
            becomes(n) ==
                /\ ~isNull(eff.merged)
                /\ merged = [old EXCEPT ![part] = Some(n)]
                /\ ~isNull(eff.stored) =>
                      eds[last.ed].state.timeParts[part] = Some(n)
        IN  /\ accepts(bc, part, before.use12HourClock)
                  => becomes(digitsValue(bc))
            /\ (~accepts(bc, part, before.use12HourClock)
                  /\ accepts(c, part, before.use12HourClock))
                  => becomes(digitsValue(c))
            /\ (part = "hours" /\ ~before.use12HourClock
                  /\ old.hours = Some(1) /\ c = <<"2">>)
                  => merged.hours = Some(12)
            /\ (part = "minutes" /\ old.minutes = Some(9) /\ c = <<"5">>)
                  => merged.minutes = Some(5)

\* "2" was typed into the hours segment of an editor without a value, in
\* 24-hour mode, its buffered hours being 1: the buffered hours are 12
C6_Witness ==
    /\ typedChar /\ last.part = "hours" /\ ~before.use12HourClock
    /\ steps = 2
    /\ isNull(before.value)
    /\ before.state.timeParts.hours = Some(1)
    /\ isNull(before.state.timeParts.minutes)
    /\ last.rawValue = <<"2">>
    /\ eds[last.ed].state.timeParts.hours = Some(12)

\* C7: when neither the buffered value concatenated with the typed
\* character nor the character alone is numeric and valid for the segment,
\* handleChange leaves the editor as it was (the whole segment record
\* included), calls neither onChange nor setTimeParts, counts no render,
\* and suppresses the event.
C7_RejectedKeystroke ==
    (typedChar
        /\ ~accepts(bufferText(before.state.timeParts[last.part]) \o last.rawValue,
                    last.part, before.use12HourClock)
        /\ ~accepts(last.rawValue, last.part, before.use12HourClock))
        => /\ eds[last.ed] = before
           /\ last.effect.calls = <<>>
           /\ isNull(last.effect.stored)
           /\ isNull(last.effect.merged)
           /\ last.effect.prevented
           /\ last.effect.focused = "none"

\* "0" was typed into the empty hours segment in 12-hour mode and refused
C7_Witness ==
    /\ typedChar /\ last.part = "hours" /\ before.use12HourClock
    /\ isNull(before.state.timeParts.hours)
    /\ last.rawValue = <<"0">>
    /\ last.effect.prevented
    /\ eds[last.ed] = before

\* the last event was Up or Down on a numeric segment
arrowOnNumber ==
    /\ last.op = "handleKeyDown"
    /\ last.key \in {"ArrowUp", "ArrowDown"}
    /\ last.part \in NumericParts

\* the segment the last arrow key aimed at, an absent one counting as 0
arrowTarget ==
    LET cur == before.state.timeParts[last.part]
    IN  (IF isNull(cur) THEN 0 ELSE the(cur))
            + (IF last.key = "ArrowUp" THEN 1 ELSE 0 - 1)

\* the last arrow key changed nothing and called nothing
arrowDropped ==
    /\ isNull(last.effect.merged)
    /\ last.effect.calls = <<>>
    /\ isNull(last.effect.stored)
    /\ eds[last.ed] = before

\* C8: Up / Down on a numeric segment of an enabled editor: when the
\* segment plus / minus 1 (absent counting as 0) passes the validator for
\* the current clock, the merged record is the old one with that segment
\* changed by exactly 1, stored when partial and composed into the emitted
\* timestamp when complete; otherwise nothing changes and nothing is called.
\* There is no wraparound: Up on hours 23 (24-hour) or 12 (12-hour), on
\* minutes or seconds 59, and Down on a segment at 0, change nothing.
C8_ArrowStepsOrDrops ==
    arrowOnNumber =>
        LET part == last.part
            old == before.state.timeParts
            eff == last.effect
            at(n) == old[part] = Some(n)
            up == last.key = "ArrowUp"
        IN  /\ isValid(String(arrowTarget), part, before.use12HourClock)
                  => /\ ~isNull(eff.merged)
                     /\ the(eff.merged) = [old EXCEPT ![part] = Some(arrowTarget)]
                     /\ ~isNull(eff.stored) =>
                           eds[last.ed].state.timeParts = the(eff.merged)
                     /\ (eff.calls # <<>> /\ part # "hours") =>
                           the(eff.calls[1].value)[part] = arrowTarget
                     /\ (eff.calls # <<>> /\ part = "hours"
                           /\ ~before.use12HourClock) =>
                           the(eff.calls[1].value).hours = arrowTarget
            /\ ~isValid(String(arrowTarget), part, before.use12HourClock)
                  => arrowDropped
            /\ (up /\ part = "hours" /\ ~before.use12HourClock /\ at(23))
                  => arrowDropped
            /\ (up /\ part = "hours" /\ before.use12HourClock /\ at(12))
                  => arrowDropped
            /\ (up /\ part \in {"minutes", "seconds"} /\ at(59)) => arrowDropped
            /\ (~up /\ at(0)) => arrowDropped
            /\ last.effect.prevented

\* Up was pressed on hours 23 in 24-hour mode, and hours are still 23
C8_Witness ==
    /\ arrowOnNumber /\ last.key = "ArrowUp" /\ last.part = "hours"
    /\ ~before.use12HourClock
    /\ before.state.timeParts.hours = Some(23)
    /\ eds[last.ed].state.timeParts.hours = Some(23)
    /\ last.effect.calls = <<>>

\* log l is a key stroke on the meridiem segment
onMeridiem(l, keys) ==
    l.op = "handleKeyDown" /\ l.part = "meridiem" /\ l.key \in keys

\* the change of log l was taken: buffered, or accepted by the owner
taken(l) == ~isNull(l.effect.stored) \/ l.accepted

\* what C9 says of the one key stroke logged in l
meridiemKeyRule(l) ==
    LET e == the(l.before)
        old == e.state.timeParts
        new == the(l.effect.merged).meridiem
        emitted == the(l.effect.calls[1].value)
        was == the(e.value)
    IN  /\ onMeridiem(l, {"ArrowUp", "ArrowDown"})
              => new = (IF old.meridiem = "AM" THEN "PM" ELSE "AM")
        /\ onMeridiem(l, {"a", "A"}) => new = "AM"
        /\ onMeridiem(l, {"p", "P"}) => new = "PM"
        /\ (onMeridiem(l, {"ArrowUp", "ArrowDown", "a", "A", "p", "P"})
              /\ populated(old, e.precision) = requiredParts(e.precision)
              /\ ~isNull(e.value))
              => /\ Len(l.effect.calls) = 1
                 /\ ~isNull(l.effect.calls[1].value)
                 /\ emitted.hours - was.hours \in {0 - 12, 0, 12}
                 /\ emitted.day = was.day
                 /\ emitted.minutes = was.minutes
                 /\ emitted.seconds = was.seconds
                 /\ emitted.milliseconds = was.milliseconds

\* C9: on the meridiem segment Up and Down toggle AM and PM, "a"/"A" set AM
\* and "p"/"P" set PM; with complete segments each such key emits a
\* timestamp whose hour differs from the value's by 12 or not at all, the
\* other fields unchanged; and two consecutive arrow presses that were
\* taken restore the meridiem and, when the owner accepted both, the
\* timestamp.
C9_MeridiemKeys ==
    [][/\ onMeridiem(last', Keys) => meridiemKeyRule(last')
       /\ (/\ onMeridiem(last, {"ArrowUp", "ArrowDown"}) /\ taken(last)
           /\ onMeridiem(last', {"ArrowUp", "ArrowDown"}) /\ taken(last')
           /\ last'.ed = last.ed)
          => /\ eds'[last.ed].state.timeParts.meridiem
                   = before.state.timeParts.meridiem
             /\ (last.accepted /\ last'.accepted)
                   => sameTime(eds'[last.ed].value, before.value)]_vars

\* C10: the clear control of an enabled, editable editor calls onChange
\* exactly once, with an absent value, when a value exists; otherwise it
\* calls nothing and resets the buffered segments to the all-absent record
\* (meridiem AM).  Either way focus moves to the hours segment.
C10_Clear ==
    (last.op = "handleClear" /\ editable(before)) =>
        LET eff == last.effect
        IN  /\ ~isNull(before.value)
                  => /\ eff.calls = <<[value |-> null, meta |-> null]>>
                     /\ isNull(eff.stored)
            /\ isNull(before.value)
                  => /\ eff.calls = <<>>
                     /\ eff.stored = Some(allAbsent)
                     /\ eds[last.ed].state.timeParts = allAbsent
            /\ eff.focused = "hours"
            /\ eds[last.ed].focus = "hours"

\* an editor without a value, its buffer holding a number, was cleared
C10_Witness ==
    /\ last.op = "handleClear" /\ editable(before)
    /\ isNull(before.value)
    /\ before.state.timeParts # allAbsent
    /\ eds[last.ed].state.timeParts = allAbsent
    /\ last.effect.calls = <<>>
    /\ eds[last.ed].focus = "hours"

C12_EmittedFields ==
    (handled /\ last.effect.calls # <<>>
        /\ ~isNull(last.effect.calls[1].value))
        => LET emitted == the(last.effect.calls[1].value)
               p == the(last.effect.merged)
               d == the(p.hours)
               basis == IF isNull(before.value) THEN getDatePart(before)
                        ELSE the(before.value)
           IN  /\ emitted.day = basis.day
               /\ emitted.hours \in 0..23
               /\ emitted.hours =
                     (IF before.use12HourClock
                      THEN (d % 12) + (IF p.meridiem = "PM" THEN 12 ELSE 0)
                      ELSE d)
               /\ emitted.minutes = the(p.minutes)
               /\ before.precision = "minutes"
                     => /\ emitted.seconds = basis.seconds
                        /\ emitted.milliseconds = basis.milliseconds
                        /\ isNull(before.value)
                              => emitted.seconds = 0 /\ emitted.milliseconds = 0

\* the strings C13 says a segment accepts: decimal digits, of the length and
\* denoting a number in the range of the segment
denotes(s, maxLen, lo, hi) ==
    /\ Len(s) \in 1..maxLen
    /\ isDigits(s)
    /\ digitsValue(s) \in lo..hi

statedValid(s, part, use12HourClock) ==
    CASE part = "hours" /\ ~use12HourClock -> denotes(s, 2, 0, 23)
      [] part = "hours" /\ use12HourClock -> denotes(s, 2, 1, 12)
      [] part \in {"minutes", "seconds"} -> denotes(s, 2, 0, 59)
      [] part = "milliseconds" -> denotes(s, 3, 0, 999)

\* C13 as stated: isValid accepts exactly the non-empty decimal strings that
\* denote, in 24-hour mode for hours, 0..23 in one or two digits with a
\* leading zero allowed; in 12-hour mode for hours, 1..12 in one or two
\* digits; for minutes and seconds 0..59 in one or two digits; for
\* milliseconds 0..999 in one to three digits; every other string is
\* rejected.
C13_ValidatorAsStated ==
    calc.pc = "validated"
        => (calc.valid <=> statedValid(calc.value, calc.part, calc.use12HourClock))

\* C13 amended: as stated, except that for the hours of the 24-hour clock a
\* leading zero is not allowed: the strings accepted are "0" .. "9",
\* "10" .. "19" and "20" .. "23", and "00" .. "09" are rejected.
C13_ValidatorExact ==
    calc.pc = "validated"
        => (calc.valid <=>
              /\ statedValid(calc.value, calc.part, calc.use12HourClock)
              /\ ~(calc.part = "hours" /\ ~calc.use12HourClock
                     /\ Len(calc.value) = 2 /\ calc.value[1] = "0"))

\* "07" was tried as hours of the 24-hour clock and rejected
C13_Witness ==
    /\ calc.pc = "validated"
    /\ calc.part = "hours" /\ ~calc.use12HourClock
    /\ calc.value = <<"0", "7">>
    /\ ~calc.valid

\* C14: in every reachable state each populated numeric segment v of every
\* editor satisfies getMin(part) <= v <= getMax(part) (hours 1..12 or 1..23,
\* minutes and seconds 0..59, milliseconds 0..999), and so no Up / Down step
\* takes a segment outside these bounds.
C14_SegmentsWithinBounds ==
    \A i \in DOMAIN eds : \A part \in NumericParts :
        LET v == eds[i].state.timeParts[part]
        IN  ~isNull(v) =>
                /\ getMin(part) <= the(v)
                /\ the(v) <= getMax(eds[i], part)

\* what a step does to the counter and, when it counts, to the session
countedRender ==
    /\ count' \in {count, count + 1}
    /\ (count' > count /\ count' >= RetryLimit)
          => /\ calc' = idle
             /\ \A i \in DOMAIN eds : eds'[i].state = eds[i].state
    /\ (count' > count /\ count' < RetryLimit)
          => /\ calc' = calc
             /\ eds'[calc.ed].state.value = eds'[calc.ed].value
             /\ eds'[calc.ed].state.use12HourClock = eds'[calc.ed].use12HourClock

\* C15: forced renders are bounded.  The one counter shared by the editors
\* never decreases; a mismatch that takes it to the threshold (100) or past
\* it sets no state and forces no further render, while one below the
\* threshold resets the session; so every render comes to an end, even when
\* the owner supplies another value or clock on every render.
C15_RenderingTerminates ==
    /\ (calc.pc = "render") ~> (calc = idle)
    /\ [][countedRender]_vars

\* the counter, counted up by renders of both editors, reached the threshold
\* in a render of the second, which ended with the state not in step with
\* the props
C15_Witness ==
    /\ count = RetryLimit
    /\ calc = idle
    /\ eds[2].state.use12HourClock # eds[2].use12HourClock
    /\ eds[1].state.value = eds[1].value
    /\ ~isNull(eds[1].value)

\* C16: an edit or a clear that calls onChange, with a timestamp or with an
\* absent value, does not write the buffered segments: setTimeParts is not
\* called; if the owner keeps the value, the segment record after the event
\* is the one before it; if the owner takes the new value, the segments are
\* getValueParts of that value.
C16_EmitLeavesSegments ==
    (handled /\ last.effect.calls # <<>>)
        => LET e == eds[last.ed]
           IN  /\ isNull(last.effect.stored)
               /\ ~last.accepted
                     => /\ e.state.timeParts = before.state.timeParts
                        /\ e.value = before.value
               /\ last.accepted
                     => /\ e.value = last.effect.calls[1].value
                        /\ e.state.timeParts
                              = getValueParts(e.value, e.use12HourClock)

\* the last event was Left or Right on a segment
focusKey == last.op = "handleKeyDown" /\ last.key \in {"ArrowLeft", "ArrowRight"}

\* the segment before (delta -1) or after (delta 1) the one of the last
\* event in display order, "none" if there is none
neighbour(delta) ==
    LET order == focusables(before)
        k == (CHOOSE j \in 1..Len(order) : order[j] = last.part) + delta
    IN  IF k \in 1..Len(order) THEN order[k] ELSE "none"

\* what the last Left / Right key did to the focus, given that it may move
\* only under condition `may`
focusMoved(may) ==
    LET delta == IF last.key = "ArrowLeft" THEN 0 - 1 ELSE 1
        e == eds[last.ed]
    IN  /\ e.focus = (IF may /\ neighbour(delta) # "none"
                      THEN neighbour(delta) ELSE before.focus)
        /\ e.state = before.state
        /\ e.value = before.value
        /\ last.effect.calls = <<>>
        /\ isNull(last.effect.stored)

\* C17: over the rendered segments in display order, Left moves the focus to
\* the previous segment only when the caret is at the start of the text or
\* the segment is the meridiem, and not at all on the first segment; Right
\* moves it to the next segment only when the caret is at the end of the
\* text or the segment is the meridiem, and not at all on the last.  The
\* focus moves by one segment and the segment record is unchanged.
C17_FocusNavigation ==
    focusKey =>
        focusMoved(\/ last.part = "meridiem"
                   \/ last.key = "ArrowLeft" /\ calc.start = 0
                   \/ last.key = "ArrowRight" /\ calc.end = calc.length)

\* the same with Right moving the focus also when the end of the selection
\* is one character before the end of the text
C17_FocusNavigationEarlyRight ==
    focusKey =>
        focusMoved(\/ last.part = "meridiem"
                   \/ last.key = "ArrowLeft" /\ calc.start = 0
                   \/ last.key = "ArrowRight" /\ calc.end + 1 >= calc.length)

\* C18: the callback queued by select() runs after the handler that queued
\* it has ended, and does not select when the focus has left the editor by
\* the time it runs: whenever a callback has selected text, an element of
\* the editor had the focus at that moment.
C18_SelectsOnlyWhenFocused ==
    (calc.pc = "page" /\ ~isNull(calc.ran))
        => the(calc.ran).active # Outside

\* what the callback does test: it selects only when the render that made
\* it was a focused one
C18_SelectsAsRendered ==
    [][(calc.pc = "page" /\ calc.jobs # <<>> /\ calc'.jobs = Tail(calc.jobs))
          => (calc'.ran # null <=> Head(calc.jobs).focused)]_vars

\* the segments of editor e are valid for the clock mode it is rendered in
segmentsValid(e) ==
    LET p == e.state.timeParts
    IN  /\ \A part \in NumericParts :
              ~isNull(p[part])
                  => /\ isValid(String(the(p[part])), part, e.use12HourClock)
                     /\ the(p[part]) \in
                            (CASE part = "hours" ->
                                     IF e.use12HourClock THEN 1..12 ELSE 0..23
                               [] part \in {"minutes", "seconds"} -> 0..59
                               [] OTHER -> 0..999)
        /\ p.meridiem \in {"AM", "PM"}
        /\ ~e.use12HourClock => p.meridiem = "AM"

\* C19: in every reachable state each populated numeric segment, written
\* as a decimal string, passes isValid for the current clock mode (hours
\* 0..23 in 24-hour mode and 1..12 in 12-hour mode, minutes and seconds
\* 0..59, milliseconds 0..999), and the meridiem is "AM" or "PM", "AM" in
\* 24-hour mode.
C19_SegmentsValid == \A i \in DOMAIN eds : segmentsValid(eds[i])

====
